---- MODULE Spec2Model ----
(***************************************************************************)
(* k8s-resources: CPUResource and MemoryResource, the quantity classes of  *)
(* src/index.ts and of src/resources.  A quantity holds one JavaScript     *)
(* number (millicores or bytes); it is built from a string, by a numeric   *)
(* factory, or by plus / minus / times on existing quantities.             *)
(*                                                                         *)
(* JavaScript numbers are IEEE-754 doubles.  They are modelled exactly:    *)
(* a finite number is sign * m * 2^e with m an odd natural below 2^53      *)
(* (kept as a sequence of limbs, since m does not fit a 32-bit integer),    *)
(* and NaN, +Infinity, -Infinity and -0 are values of their own.           *)
(***************************************************************************)
EXTENDS Integers, Sequences, FiniteSets, TLC

\* F(v), with v computed before F is entered.  (TLC computes the argument of
\* an operator where it is first used; computing it first keeps its
\* evaluation shallow.)
With(v, F(_)) ==
  CHOOSE r \in { F(d) : d \in {v} } : TRUE

(***************************************************************************)
(* Naturals of any size: limbs in base 2^15, least significant first, the  *)
(* last limb not 0; <<>> is zero.  (A product of two limbs fits            *)
(* TLC's 32-bit integers.)                                                 *)
(***************************************************************************)
BNBase == 2^15

RECURSIVE BNTrim(_)
BNTrim(b) ==
  IF b = <<>> THEN <<>>
  ELSE IF b[Len(b)] = 0 THEN BNTrim(SubSeq(b, 1, Len(b) - 1)) ELSE b

RECURSIVE BNFromNat(_)
BNFromNat(n) ==
  IF n = 0 THEN <<>> ELSE <<n % BNBase>> \o BNFromNat(n \div BNBase)

BNLimb(b, i) ==
  IF i >= 1 /\ i <= Len(b) THEN b[i] ELSE 0

BNRest(b) ==
  IF b = <<>> THEN <<>> ELSE Tail(b)

BNZeros(n) ==
  IF n <= 0 THEN <<>> ELSE [i \in 1..n |-> 0]

RECURSIVE BNAddCarry(_, _, _)
BNAddCarry(a, b, c) ==
  IF a = <<>> /\ b = <<>> THEN (IF c = 0 THEN <<>> ELSE <<c>>)
  ELSE LET x == BNLimb(a, 1) + BNLimb(b, 1) + c
       IN  <<x % BNBase>> \o BNAddCarry(BNRest(a), BNRest(b), x \div BNBase)

BNAdd(a, b) ==
  BNAddCarry(a, b, 0)

\* a - b for a >= b
RECURSIVE BNSubBorrow(_, _, _)
BNSubBorrow(a, b, c) ==
  IF a = <<>> THEN <<>>
  ELSE LET x == a[1] - BNLimb(b, 1) - c
       IN  <<x % BNBase>> \o BNSubBorrow(Tail(a), BNRest(b), IF x < 0 THEN 1 ELSE 0)

BNSub(a, b) ==
  BNTrim(BNSubBorrow(a, b, 0))

\* -1, 0, 1 as a < b, a = b, a > b
RECURSIVE BNCmp(_, _)
BNCmp(a, b) ==
  IF Len(a) # Len(b) THEN (IF Len(a) < Len(b) THEN -1 ELSE 1)
  ELSE IF a = <<>> THEN 0
  ELSE IF a[Len(a)] # b[Len(b)] THEN (IF a[Len(a)] < b[Len(b)] THEN -1 ELSE 1)
  ELSE BNCmp(BNTrim(SubSeq(a, 1, Len(a) - 1)), BNTrim(SubSeq(b, 1, Len(b) - 1)))

\* a * k + c for a limb k
RECURSIVE BNMulLimb(_, _, _)
BNMulLimb(a, k, c) ==
  IF a = <<>> THEN (IF c = 0 THEN <<>> ELSE <<c>>)
  ELSE LET x == a[1] * k + c
       IN  <<x % BNBase>> \o BNMulLimb(Tail(a), k, x \div BNBase)

BNMulSmall(a, k) ==
  BNTrim(BNMulLimb(a, k, 0))

RECURSIVE BNMul(_, _)
BNMul(a, b) ==
  IF a = <<>> \/ b = <<>> THEN <<>>
  ELSE LET hi == BNMul(a, Tail(b))
       IN  BNAdd(BNMulSmall(a, b[1]), IF hi = <<>> THEN <<>> ELSE <<0>> \o hi)

\* quotient and remainder of a by d, 0 < d < 2^15
RECURSIVE BNDivRaw(_, _)
BNDivRaw(a, d) ==
  IF a = <<>> THEN [q |-> <<>>, r |-> 0]
  ELSE LET hi  == BNDivRaw(Tail(a), d)
           cur == BNBase * hi.r + a[1]
       IN  [q |-> <<cur \div d>> \o hi.q, r |-> cur % d]

BNDivSmall(a, d) ==
  LET x == BNDivRaw(a, d) IN [q |-> BNTrim(x.q), r |-> x.r]

\* the limb d with b * d <= cur < b * (d + 1), for cur < b * 2^15 and the
\* last limb of b at least 2^14: at most 2 below the quotient of the leading
\* limbs
BNQuotLimb(cur, b) ==
  LET n    == Len(b)
      lead == BNBase * BNLimb(cur, n + 1) + BNLimb(cur, n)
      est  == IF lead \div b[n] < BNBase THEN lead \div b[n] ELSE BNBase - 1
  IN  CHOOSE d \in (est - 2)..est :
        /\ d >= 0
        /\ BNCmp(BNMulSmall(b, d), cur) <= 0
        /\ BNCmp(BNMulSmall(b, d + 1), cur) > 0

\* quotient and remainder of a by b, the last limb of b at least 2^14
RECURSIVE BNDivModRaw(_, _)
BNDivModRaw(a, b) ==
  IF a = <<>> THEN [q |-> <<>>, r |-> <<>>]
  ELSE With(BNDivModRaw(Tail(a), b), LAMBDA hi :
       With(BNTrim(<<a[1]>> \o hi.r), LAMBDA cur :
       With(BNQuotLimb(cur, b), LAMBDA d :
            [q |-> <<d>> \o hi.q, r |-> BNSub(cur, BNMulSmall(b, d))])))

\* quotient and remainder of a by b # 0
BNDivMod(a, b) ==
  LET s == CHOOSE n \in 0..14 : 2^14 <= b[Len(b)] * 2^n /\ b[Len(b)] * 2^n < 2^15
  IN  With(BNDivModRaw(BNMulSmall(a, 2^s), BNMulSmall(b, 2^s)), LAMBDA x :
           [q |-> BNTrim(x.q), r |-> BNDivSmall(x.r, 2^s).q])

\* the number of bits of a
BNBitLen(a) ==
  IF a = <<>> THEN 0
  ELSE 15 * (Len(a) - 1)
       + (CHOOSE n \in 1..15 : 2^(n - 1) <= a[Len(a)] /\ a[Len(a)] < 2^n)

\* bit i of a, bit 1 the least significant
BNBit(a, i) ==
  IF i < 1 THEN 0
  ELSE (BNLimb(a, ((i - 1) \div 15) + 1) \div 2^((i - 1) % 15)) % 2

\* one of the bits 1..n of a is set
BNLowBitsSet(a, n) ==
  n >= 1 /\ ( \/ \E i \in 1..(n \div 15) : BNLimb(a, i) # 0
              \/ BNLimb(a, (n \div 15) + 1) % 2^(n % 15) # 0 )

BNShiftLeft(a, n) ==
  IF a = <<>> THEN <<>> ELSE BNZeros(n \div 15) \o BNMulSmall(a, 2^(n % 15))

BNShiftRight(a, n) ==
  IF n \div 15 >= Len(a) THEN <<>>
  ELSE BNDivSmall(SubSeq(a, (n \div 15) + 1, Len(a)), 2^(n % 15)).q

\* the number of zero bits below the lowest set bit of a # 0
RECURSIVE BNLowZeros(_)
BNLowZeros(a) ==
  IF a[1] = 0 THEN 15 + BNLowZeros(Tail(a))
  ELSE CHOOSE z \in 0..14 : a[1] % 2^z = 0 /\ a[1] % 2^(z + 1) # 0

(***************************************************************************)
(* JavaScript numbers.                                                     *)
(***************************************************************************)
NaN == [k |-> "nan", neg |-> FALSE, m |-> <<>>, e |-> 0]

Inf(neg) == [k |-> "inf", neg |-> neg, m |-> <<>>, e |-> 0]

\* the finite number (-1)^neg * m * 2^e in its one normal form (m odd, or 0)
Fin(neg, m, e) ==
  IF m = <<>> THEN [k |-> "fin", neg |-> neg, m |-> <<>>, e |-> 0]
  ELSE With(BNLowZeros(m), LAMBDA z :
            [k |-> "fin", neg |-> neg, m |-> BNShiftRight(m, z), e |-> e + z])

IsZero(x) == x.k = "fin" /\ x.m = <<>>

\* the double nearest to m * 2^e (plus a little more when sticky), ties to even
RoundToDouble(neg, m, e, sticky) ==
  IF m = <<>> THEN Fin(neg, <<>>, 0)
  ELSE
    LET q == IF e + BNBitLen(m) - 53 > -1074 THEN e + BNBitLen(m) - 53 ELSE -1074
        d == q - e
    IN  IF q <= e
        THEN (IF BNBitLen(m) + e > 1024 THEN Inf(neg) ELSE Fin(neg, m, e))
        ELSE With(BNShiftRight(m, d), LAMBDA kept :
             LET half == BNBit(m, d)
                 rest == sticky \/ BNLowBitsSet(m, d - 1)
                 up   == half = 1 /\ (rest \/ BNBit(kept, 1) = 1)
             IN  With(IF up THEN BNAdd(kept, <<1>>) ELSE kept, LAMBDA r :
                      IF BNBitLen(r) + q > 1024 THEN Inf(neg) ELSE Fin(neg, r, q)))

\* a small integer as a number
Num(n) ==
  IF n < 0 THEN Fin(TRUE, BNFromNat(-n), 0) ELSE Fin(FALSE, BNFromNat(n), 0)

\* n * 2^e for small integers n, e
Dyadic(n, e) ==
  IF n < 0 THEN Fin(TRUE, BNFromNat(-n), e) ELSE Fin(FALSE, BNFromNat(n), e)

NumNeg(x) ==
  IF x.k = "nan" THEN x ELSE [x EXCEPT !.neg = ~x.neg]

\* x * y
NumMul(x, y) ==
  IF x.k = "nan" \/ y.k = "nan" THEN NaN
  ELSE IF x.k = "inf" \/ y.k = "inf"
       THEN (IF IsZero(x) \/ IsZero(y) THEN NaN ELSE Inf(x.neg # y.neg))
  ELSE RoundToDouble(x.neg # y.neg, BNMul(x.m, y.m), x.e + y.e, FALSE)

\* x / y
NumDiv(x, y) ==
  IF x.k = "nan" \/ y.k = "nan" THEN NaN
  ELSE IF x.k = "inf" THEN (IF y.k = "inf" THEN NaN ELSE Inf(x.neg # y.neg))
  ELSE IF y.k = "inf" THEN Fin(x.neg # y.neg, <<>>, 0)
  ELSE IF IsZero(y) THEN (IF IsZero(x) THEN NaN ELSE Inf(x.neg # y.neg))
  ELSE IF IsZero(x) THEN Fin(x.neg # y.neg, <<>>, 0)
  ELSE LET shift == 56 + BNBitLen(y.m)
       IN  With(BNDivMod(BNShiftLeft(x.m, shift), y.m), LAMBDA d :
                RoundToDouble(x.neg # y.neg, d.q, x.e - y.e - shift, d.r # <<>>))

\* x + y
NumAdd(x, y) ==
  IF x.k = "nan" \/ y.k = "nan" THEN NaN
  ELSE IF x.k = "inf" /\ y.k = "inf" THEN (IF x.neg = y.neg THEN x ELSE NaN)
  ELSE IF x.k = "inf" THEN x
  ELSE IF y.k = "inf" THEN y
  ELSE IF IsZero(x) /\ IsZero(y) THEN Fin(x.neg /\ y.neg, <<>>, 0)
  ELSE IF IsZero(x) THEN y
  ELSE IF IsZero(y) THEN x
  ELSE
    LET xTop == BNBitLen(x.m) + x.e
        yTop == BNBitLen(y.m) + y.e
        big  == IF xTop >= yTop THEN x ELSE y
        far  == xTop - yTop > 64 \/ yTop - xTop > 64
        e    == IF x.e < y.e THEN x.e ELSE y.e
        a    == BNShiftLeft(x.m, x.e - e)
        b    == BNShiftLeft(y.m, y.e - e)
        c    == BNCmp(a, b)
        wide == BNShiftLeft(big.m, 60)
    IN  IF far
        THEN \* the small operand lies wholly below the rounding position
             (IF x.neg = y.neg
              THEN RoundToDouble(big.neg, wide, big.e - 60, TRUE)
              ELSE RoundToDouble(big.neg, BNSub(wide, <<1>>), big.e - 60, TRUE))
        ELSE IF x.neg = y.neg THEN RoundToDouble(x.neg, BNAdd(a, b), e, FALSE)
        ELSE IF c = 0 THEN Fin(FALSE, <<>>, 0)
        ELSE IF c > 0 THEN RoundToDouble(x.neg, BNSub(a, b), e, FALSE)
        ELSE RoundToDouble(y.neg, BNSub(b, a), e, FALSE)

\* x - y
NumSub(x, y) ==
  NumAdd(x, NumNeg(y))

\* x < y
NumLt(x, y) ==
  IF x.k = "nan" \/ y.k = "nan" THEN FALSE
  ELSE IF IsZero(x) /\ IsZero(y) THEN FALSE
  ELSE IF x.neg # y.neg THEN x.neg
  ELSE IF x.k = "inf" THEN (x.neg /\ y.k # "inf")
  ELSE IF y.k = "inf" THEN ~y.neg
  ELSE IF IsZero(x) \/ IsZero(y) THEN (IF x.neg THEN IsZero(y) ELSE IsZero(x))
  ELSE
    LET xTop == BNBitLen(x.m) + x.e
        yTop == BNBitLen(y.m) + y.e
        e    == IF x.e < y.e THEN x.e ELSE y.e
        c    == IF xTop # yTop THEN (IF xTop < yTop THEN -1 ELSE 1)
                ELSE BNCmp(BNShiftLeft(x.m, x.e - e), BNShiftLeft(y.m, y.e - e))
    IN  IF x.neg THEN c > 0 ELSE c < 0

\* x === y
NumStrictEq(x, y) ==
  x.k # "nan" /\ y.k # "nan" /\ (x = y \/ (IsZero(x) /\ IsZero(y)))

\* Number.isFinite(x)
NumberIsFinite(x) == x.k = "fin"

\* Math.floor(x)
MathFloor(x) ==
  IF x.k # "fin" \/ x.e >= 0 THEN x
  ELSE LET ip == BNShiftRight(x.m, -x.e)
       IN  IF x.neg THEN Fin(TRUE, BNAdd(ip, <<1>>), 0) ELSE Fin(FALSE, ip, 0)

(***************************************************************************)
(* Strings are sequences of one-character strings.                         *)
(***************************************************************************)
Digits == {"0", "1", "2", "3", "4", "5", "6", "7", "8", "9"}

Letters ==
  {"a", "b", "c", "d", "e", "f", "g", "h", "i", "j", "k", "l", "m",
   "n", "o", "p", "q", "r", "s", "t", "u", "v", "w", "x", "y", "z",
   "A", "B", "C", "D", "E", "F", "G", "H", "I", "J", "K", "L", "M",
   "N", "O", "P", "Q", "R", "S", "T", "U", "V", "W", "X", "Y", "Z"}

DigitValue(c) ==
  CASE c = "0" -> 0 [] c = "1" -> 1 [] c = "2" -> 2 [] c = "3" -> 3
    [] c = "4" -> 4 [] c = "5" -> 5 [] c = "6" -> 6 [] c = "7" -> 7
    [] c = "8" -> 8 [] c = "9" -> 9

DigitChar(d) ==
  <<"0", "1", "2", "3", "4", "5", "6", "7", "8", "9">>[d + 1]

\* String.prototype.startsWith for a one-character prefix
StartsWith(s, c) ==
  Len(s) >= 1 /\ s[1] = c

\* the length of the longest prefix of s made of characters of class
RECURSIVE PrefixLen(_, _)
PrefixLen(s, class) ==
  IF s = <<>> \/ s[1] \notin class THEN 0 ELSE 1 + PrefixLen(Tail(s), class)

RECURSIVE BNPow10(_)
BNPow10(k) ==
  IF k <= 0 THEN <<1>>
  ELSE IF k < 4 THEN <<10^k>>
  ELSE BNMulSmall(BNPow10(k - 4), 10^4)

\* a divided by 10^k: the quotient, and whether the division left a rest
RECURSIVE BNDivPow10(_, _)
BNDivPow10(a, k) ==
  IF k <= 0 THEN [q |-> a, rest |-> FALSE]
  ELSE LET step == IF k < 4 THEN k ELSE 4
           x    == BNDivSmall(a, 10^step)
       IN  IF x.r # 0 THEN [q |-> BNDivPow10(x.q, k - step).q, rest |-> TRUE]
           ELSE BNDivPow10(x.q, k - step)

\* the small natural written by at most four decimal digits
DecimalChunk(ds) ==
  LET d(i) == IF i <= Len(ds) THEN DigitValue(ds[Len(ds) + 1 - i]) ELSE 0
  IN  d(1) + 10 * d(2) + 100 * d(3) + 1000 * d(4)

\* the natural written by a string of decimal digits
RECURSIVE BNFromDecimal(_)
BNFromDecimal(ds) ==
  IF Len(ds) <= 4 THEN BNFromNat(DecimalChunk(ds))
  ELSE BNAdd(BNMulSmall(BNFromDecimal(SubSeq(ds, 1, Len(ds) - 4)), 10^4),
             BNFromNat(DecimalChunk(SubSeq(ds, Len(ds) - 3, Len(ds)))))

\* the decimal digits of a natural, "" for zero
RECURSIVE BNToDecimal(_)
BNToDecimal(b) ==
  IF b = <<>> THEN <<>>
  ELSE IF Len(b) = 1 /\ b[1] < 10 THEN <<DigitChar(b[1])>>
  ELSE IF Len(b) = 1 /\ b[1] < 100
       THEN <<DigitChar(b[1] \div 10), DigitChar(b[1] % 10)>>
  ELSE IF Len(b) = 1 /\ b[1] < 1000
       THEN <<DigitChar(b[1] \div 100), DigitChar((b[1] \div 10) % 10),
              DigitChar(b[1] % 10)>>
  ELSE LET x == BNDivSmall(b, 10^4)
       IN  BNToDecimal(x.q)
           \o <<DigitChar(x.r \div 1000), DigitChar((x.r \div 100) % 10),
                DigitChar((x.r \div 10) % 10), DigitChar(x.r % 10)>>

\* the Number value of s * 10^p: the double nearest to it
DecimalToDouble(s, p) ==
  IF s = <<>> THEN Fin(FALSE, <<>>, 0)
  ELSE IF p >= 0 THEN RoundToDouble(FALSE, BNMul(s, BNPow10(p)), 0, FALSE)
  ELSE LET shift == 56 + 4 * (-p)
       IN  With(BNDivPow10(BNShiftLeft(s, shift), -p), LAMBDA x :
                RoundToDouble(FALSE, x.q, -shift, x.rest))

\* parseFloat of a string of the form digits or digits.digits
ParseFloat(num) ==
  LET n1   == PrefixLen(num, Digits)
      frac == SubSeq(num, n1 + 2, Len(num))
  IN  DecimalToDouble(BNFromDecimal(SubSeq(num, 1, n1) \o frac), -Len(frac))

\* floor(2 * x / 10^p) for a finite x > 0, and whether anything was cut off
TwiceScaled(x, p) ==
  With(BNMulSmall(IF p < 0 THEN BNMul(x.m, BNPow10(-p)) ELSE x.m, 2), LAMBDA up :
  With(IF x.e >= 0 THEN BNShiftLeft(up, x.e) ELSE BNShiftRight(up, -x.e), LAMBDA bin :
  With(BNDivPow10(bin, p), LAMBDA dec :
       [q |-> dec.q, rest |-> (x.e < 0 /\ BNLowBitsSet(up, -x.e)) \/ dec.rest])))

\* the n of a finite x > 0 with 10^(n-1) <= x < 10^n, searched below 1 - j
RECURSIVE DecimalExponentBelow(_, _)
DecimalExponentBelow(x, j) ==
  IF With(TwiceScaled(x, -j).q, LAMBDA q : q # <<>> /\ BNCmp(q, <<2>>) >= 0)
  THEN 1 - j ELSE DecimalExponentBelow(x, j + 1)

\* the n of a finite x > 0 with 10^(n-1) <= x < 10^n
DecimalExponent(x) ==
  With(TwiceScaled(x, 0).q, LAMBDA ip :
       IF BNCmp(ip, <<2>>) >= 0 THEN Len(BNToDecimal(BNDivSmall(ip, 2).q))
       ELSE DecimalExponentBelow(x, 1))

\* the two k-digit decimals s * 10^(n-k) around a finite x > 0 with
\* 10^(n0-1) <= x < 10^n0, the nearer one first
DecimalCandidates(x, n0, k) ==
  With(TwiceScaled(x, n0 - k), LAMBDA t :
  With(BNDivSmall(t.q, 2), LAMBDA h :
  With(BNAdd(h.q, <<1>>), LAMBDA hi :
    LET lo == h.q
        upper == h.r = 1 /\ (t.rest \/ BNDivSmall(lo, 2).r = 1)
        fix(s) == IF s = BNPow10(k) THEN [s |-> BNPow10(k - 1), n |-> n0 + 1]
                  ELSE [s |-> s, n |-> n0]
    IN  IF upper THEN <<fix(hi), fix(lo)>> ELSE <<fix(lo), fix(hi)>>)))

\* the k-digit decimal c reads back as x
DecimalRoundTrips(x, k, c) ==
  /\ BNCmp(c.s, BNPow10(k - 1)) >= 0
  /\ DecimalToDouble(c.s, c.n - k) = x

\* the k-digit decimal nearest to x that reads back as x, if there is one
DecimalOfLength(x, n0, k) ==
  With(DecimalCandidates(x, n0, k), LAMBDA c :
  With({ i \in 1..2 : DecimalRoundTrips(x, k, c[i]) }, LAMBDA back :
       IF back = {} THEN <<>> ELSE <<c[IF 1 \in back THEN 1 ELSE 2]>>))

\* the digits, n and k of Number::toString for a finite x > 0: the shortest
\* decimal that reads back as x, the nearest to x of that length
ShortestDecimal(x) ==
  With(DecimalExponent(x), LAMBDA n0 :
  With(CHOOSE j \in 1..17 : \A i \in 1..j : (DecimalOfLength(x, n0, i) # <<>>) = (i = j),
       LAMBDA k :
  With(DecimalOfLength(x, n0, k)[1], LAMBDA pick :
       [digits |-> BNToDecimal(pick.s), n |-> pick.n, k |-> k])))

Repeat(c, n) ==
  IF n <= 0 THEN <<>> ELSE [i \in 1..n |-> c]

NatToString(n) ==
  IF n = 0 THEN <<"0">> ELSE BNToDecimal(BNFromNat(n))

\* `${x}`, String(x): Number::toString(x)
NumberToString(x) ==
  IF x.k = "nan" THEN <<"N", "a", "N">>
  ELSE IF x.k = "inf"
       THEN (IF x.neg THEN <<"-">> ELSE <<>>) \o <<"I", "n", "f", "i", "n", "i", "t", "y">>
  ELSE IF IsZero(x) THEN <<"0">>
  ELSE
    With(ShortestDecimal([x EXCEPT !.neg = FALSE]), LAMBDA d :
    LET sign == IF x.neg THEN <<"-">> ELSE <<>>
        n    == d.n
        k    == d.k
        exp  == (IF n - 1 < 0 THEN <<"e", "-">> \o NatToString(1 - n)
                 ELSE <<"e", "+">> \o NatToString(n - 1))
    IN  sign \o
        ( IF k <= n /\ n <= 21 THEN d.digits \o Repeat("0", n - k)
          ELSE IF 0 < n /\ n <= 21
               THEN SubSeq(d.digits, 1, n) \o <<".">> \o SubSeq(d.digits, n + 1, k)
          ELSE IF -6 < n /\ n <= 0
               THEN <<"0", ".">> \o Repeat("0", -n) \o d.digits
          ELSE IF k = 1 THEN d.digits \o exp
          ELSE <<d.digits[1], ".">> \o SubSeq(d.digits, 2, k) \o exp ))

\* x >= y
NumGe(x, y) ==
  x.k # "nan" /\ y.k # "nan" /\ ~NumLt(x, y)

\* x > y
NumGt(x, y) ==
  NumLt(y, x)

(***************************************************************************)
(* JavaScript values met in the unit lookup: a number, a function (an      *)
(* inherited property of the object literal), or undefined.                *)
(***************************************************************************)
JSNumber(x) == [t |-> "number", v |-> x]

JSFunction == [t |-> "function", v |-> NaN]

JSUndefined == [t |-> "undefined", v |-> NaN]

\* the properties every object literal inherits from Object.prototype whose
\* names are made of letters only
ObjectPrototypeKeys ==
  { <<"c", "o", "n", "s", "t", "r", "u", "c", "t", "o", "r">>,
    <<"t", "o", "S", "t", "r", "i", "n", "g">>,
    <<"v", "a", "l", "u", "e", "O", "f">>,
    <<"t", "o", "L", "o", "c", "a", "l", "e", "S", "t", "r", "i", "n", "g">>,
    <<"h", "a", "s", "O", "w", "n", "P", "r", "o", "p", "e", "r", "t", "y">>,
    <<"i", "s", "P", "r", "o", "t", "o", "t", "y", "p", "e", "O", "f">>,
    <<"p", "r", "o", "p", "e", "r", "t", "y", "I", "s", "E", "n", "u", "m", "e", "r",
      "a", "b", "l", "e">> }

\* units[key] for an object literal units
GetProperty(units, key) ==
  IF key \in DOMAIN units THEN JSNumber(units[key])
  ELSE IF key \in ObjectPrototypeKeys THEN JSFunction
  ELSE JSUndefined

\* the truthiness of a value
ToBoolean(v) ==
  \/ v.t = "function"
  \/ v.t = "number" /\ v.v.k # "nan" /\ ~IsZero(v.v)

\* the value as an operand of *
ToNumber(v) ==
  IF v.t = "number" THEN v.v ELSE NaN

\* a variant of the pattern without its end anchor: /^(\d+(\.\d+)?)([a-zA-Z]*)/
ResourceMatchUnanchored(resource) ==
  LET n1      == PrefixLen(resource, Digits)
      after   == SubSeq(resource, n1 + 1, Len(resource))
      hasFrac == Len(after) >= 2 /\ after[1] = "." /\ after[2] \in Digits
      n2      == IF hasFrac THEN 1 + PrefixLen(Tail(after), Digits) ELSE 0
      rest    == SubSeq(resource, n1 + n2 + 1, Len(resource))
  IN  IF n1 >= 1
      THEN [matched |-> TRUE, num |-> SubSeq(resource, 1, n1 + n2),
            unit |-> SubSeq(rest, 1, PrefixLen(rest, Letters))]
      ELSE [matched |-> FALSE, num |-> <<>>, unit |-> <<>>]

\* resource.match(/^(\d+(\.\d+)?)([a-zA-Z]*)$/): groups 1 and 3
ResourceMatch(resource) ==
  LET n1      == PrefixLen(resource, Digits)
      after   == SubSeq(resource, n1 + 1, Len(resource))
      hasFrac == Len(after) >= 2 /\ after[1] = "." /\ after[2] \in Digits
      n2      == IF hasFrac THEN 1 + PrefixLen(Tail(after), Digits) ELSE 0
      unit    == SubSeq(resource, n1 + n2 + 1, Len(resource))
  IN  IF n1 >= 1 /\ \A i \in 1..Len(unit) : unit[i] \in Letters
      THEN [matched |-> TRUE, num |-> SubSeq(resource, 1, n1 + n2), unit |-> unit]
      ELSE [matched |-> FALSE, num |-> <<>>, unit |-> <<>>]

(***************************************************************************)
(* The outcome of a call: the error thrown ("none" when it returns) and    *)
(* the number it computed.                                                 *)
(***************************************************************************)
Throw(kind) == [threw |-> kind, value |-> NaN]

Return(value) == [threw |-> "none", value |-> value]

Modules == {"index", "resources"}

Classes == {"CPUResource", "MemoryResource"}

(***************************************************************************)
(* CPUResource                                                             *)
(***************************************************************************)
CPUUnits ==
  (<<"m">> :> Num(1)) @@ (<<>> :> Num(1000))

\* a variant of the validator that tests finiteness before the sign
validateMillicoresFiniteFirst(millicores) ==
  IF ~NumberIsFinite(millicores) THEN "NotFinite"
  ELSE IF NumLt(millicores, Num(0)) THEN "Negative"
  ELSE IF ~NumStrictEq(MathFloor(millicores), millicores) THEN "FractionalUnit"
  ELSE "none"

validateMillicores(millicores) ==
  IF NumLt(millicores, Num(0)) THEN "Negative"
  ELSE IF ~NumberIsFinite(millicores) THEN "NotFinite"
  ELSE IF ~NumStrictEq(MathFloor(millicores), millicores) THEN "FractionalUnit"
  ELSE "none"

\* a variant of the constructor that applies the pattern before any test of
\* the sign, in either module
CPUConstructorPatternFirst(module, resource) ==
  With(ResourceMatch(resource), LAMBDA match :
  IF ~match.matched THEN Throw("InvalidFormat")
  ELSE
    With(GetProperty(CPUUnits, match.unit), LAMBDA multiplier :
    IF match.unit # <<>> /\ ~ToBoolean(multiplier)
    THEN Throw("InvalidUnit")
    ELSE
      With(NumMul(ParseFloat(match.num),
                  IF ToBoolean(multiplier) THEN ToNumber(multiplier) ELSE Num(1)),
           LAMBDA value :
      With(validateMillicores(value), LAMBDA error :
           IF error # "none" THEN Throw(error) ELSE Return(value)))))

\* new CPUResource(resource); the classes of src/resources test the leading
\* '-' first, those of src/index.ts do not
CPUConstructor(module, resource) ==
  IF module = "resources" /\ StartsWith(resource, "-") THEN Throw("Negative")
  ELSE
    With(ResourceMatch(resource), LAMBDA match :
    IF ~match.matched THEN Throw("InvalidFormat")
    ELSE
      With(GetProperty(CPUUnits, match.unit), LAMBDA multiplier :
      IF match.unit # <<>> /\ ~ToBoolean(multiplier)
      THEN Throw("InvalidUnit")
      ELSE
        With(NumMul(ParseFloat(match.num),
                    IF ToBoolean(multiplier) THEN ToNumber(multiplier) ELSE Num(1)),
             LAMBDA value :
        With(validateMillicores(value), LAMBDA error :
             IF error # "none" THEN Throw(error) ELSE Return(value)))))

\* a variant of format that writes exactly 1000 millicores in millicores
CPUFormatAbove(value) ==
  With(IF NumGt(value, Num(1000)) THEN [shown |-> NumDiv(value, Num(1000)), unit |-> <<>>]
       ELSE [shown |-> value, unit |-> <<"m">>],
       LAMBDA part : NumberToString(part.shown) \o part.unit)

CPUFormat(value) ==
  With(IF NumGe(value, Num(1000))
       THEN [shown |-> NumDiv(value, Num(1000)), unit |-> <<>>]
       ELSE [shown |-> value, unit |-> <<"m">>],
       LAMBDA part : NumberToString(part.shown) \o part.unit)

CPUZero(module) ==
  CPUConstructor(module, <<"0", "m">>)

fromMillicores(module, millicores) ==
  With(validateMillicores(millicores), LAMBDA error :
       IF error # "none" THEN Throw(error)
       ELSE CPUConstructor(module, NumberToString(millicores) \o <<"m">>))

fromCores(module, cores) ==
  With(validateMillicores(NumMul(cores, Num(1000))), LAMBDA error :
       IF error # "none" THEN Throw(error)
       ELSE CPUConstructor(module, NumberToString(cores)))

(***************************************************************************)
(* MemoryResource                                                          *)
(***************************************************************************)
MemoryUnits ==
  (<<"K", "i">> :> Num(1024)) @@ (<<"M", "i">> :> Dyadic(1, 20))
  @@ (<<"G", "i">> :> Dyadic(1, 30)) @@ (<<"T", "i">> :> Dyadic(1, 40))

\* a variant of the validator without the test of the sign
validateBytesUnsigned(bytes) ==
  IF ~NumberIsFinite(bytes) THEN "NotFinite"
  ELSE IF ~NumStrictEq(MathFloor(bytes), bytes) THEN "FractionalUnit"
  ELSE "none"

validateBytes(bytes) ==
  IF NumLt(bytes, Num(0)) THEN "Negative"
  ELSE IF ~NumberIsFinite(bytes) THEN "NotFinite"
  ELSE IF ~NumStrictEq(MathFloor(bytes), bytes) THEN "FractionalUnit"
  ELSE "none"

\* a variant of the constructor that tests the leading '-' in either module
MemoryConstructorSignFirst(module, resource) ==
  IF StartsWith(resource, "-") THEN Throw("Negative")
  ELSE
    With(ResourceMatch(resource), LAMBDA match :
    IF ~match.matched THEN Throw("InvalidFormat")
    ELSE
      With(GetProperty(MemoryUnits, match.unit), LAMBDA multiplier :
      IF match.unit # <<>> /\ ~ToBoolean(multiplier) /\ match.unit # <<"B">>
      THEN Throw("InvalidUnit")
      ELSE
        With(NumMul(ParseFloat(match.num),
                    IF ToBoolean(multiplier) THEN ToNumber(multiplier) ELSE Num(1)),
             LAMBDA value :
        With(validateBytes(value), LAMBDA error :
             IF error # "none" THEN Throw(error) ELSE Return(value)))))

MemoryConstructor(module, resource) ==
  IF module = "resources" /\ StartsWith(resource, "-") THEN Throw("Negative")
  ELSE
    With(ResourceMatch(resource), LAMBDA match :
    IF ~match.matched THEN Throw("InvalidFormat")
    ELSE
      With(GetProperty(MemoryUnits, match.unit), LAMBDA multiplier :
      IF match.unit # <<>> /\ ~ToBoolean(multiplier) /\ match.unit # <<"B">>
      THEN Throw("InvalidUnit")
      ELSE
        With(NumMul(ParseFloat(match.num),
                    IF ToBoolean(multiplier) THEN ToNumber(multiplier) ELSE Num(1)),
             LAMBDA value :
        With(validateBytes(value), LAMBDA error :
             IF error # "none" THEN Throw(error) ELSE Return(value)))))

\* a variant of format that tries Ti before Gi
MemoryFormatTi(value) ==
  LET units == << <<"T", "i">>, <<"G", "i">>, <<"M", "i">>, <<"K", "i">> >>
      fits  == { i \in 1..4 : NumGe(value, MemoryUnits[units[i]]) }
  IN  With(IF fits # {}
           THEN With(units[CHOOSE i \in fits : \A j \in fits : i <= j], LAMBDA unit :
                     [shown |-> NumDiv(value, MemoryUnits[unit]), unit |-> unit])
           ELSE [shown |-> value, unit |-> <<"B">>],
           LAMBDA part : NumberToString(part.shown) \o part.unit)

MemoryFormat(value) ==
  LET units == << <<"G", "i">>, <<"M", "i">>, <<"K", "i">> >>
      fits  == { i \in 1..3 : NumGe(value, MemoryUnits[units[i]]) }
  IN  With(IF fits # {}
           THEN With(units[CHOOSE i \in fits : \A j \in fits : i <= j], LAMBDA unit :
                     [shown |-> NumDiv(value, MemoryUnits[unit]), unit |-> unit])
           ELSE [shown |-> value, unit |-> <<"B">>],
           LAMBDA part : NumberToString(part.shown) \o part.unit)

\* a variant of zero that is one byte
MemoryZeroUnit(module) ==
  MemoryConstructor(module, <<"1", "B">>)

MemoryZero(module) ==
  MemoryConstructor(module, <<"0", "B">>)

fromBytes(module, bytes) ==
  With(validateBytes(bytes), LAMBDA error :
       IF error # "none" THEN Throw(error)
       ELSE MemoryConstructor(module, NumberToString(bytes) \o <<"B">>))

fromKiB(module, kib) ==
  With(validateBytes(NumMul(kib, Num(1024))), LAMBDA error :
       IF error # "none" THEN Throw(error)
       ELSE MemoryConstructor(module, NumberToString(kib) \o <<"K", "i">>))

fromMiB(module, mib) ==
  With(validateBytes(NumMul(NumMul(mib, Num(1024)), Num(1024))), LAMBDA error :
       IF error # "none" THEN Throw(error)
       ELSE MemoryConstructor(module, NumberToString(mib) \o <<"M", "i">>))

fromGiB(module, gib) ==
  With(validateBytes(NumMul(NumMul(NumMul(gib, Num(1024)), Num(1024)), Num(1024))), LAMBDA error :
       IF error # "none" THEN Throw(error)
       ELSE MemoryConstructor(module, NumberToString(gib) \o <<"G", "i">>))

(***************************************************************************)
(* Both classes, by name.                                                  *)
(***************************************************************************)
Validate(cls, value) ==
  IF cls = "CPUResource" THEN validateMillicores(value) ELSE validateBytes(value)

Constructor(module, cls, resource) ==
  IF cls = "CPUResource" THEN CPUConstructor(module, resource)
  ELSE MemoryConstructor(module, resource)

ZeroOf(module, cls) ==
  IF cls = "CPUResource" THEN CPUZero(module) ELSE MemoryZero(module)

Format(cls, value) ==
  IF cls = "CPUResource" THEN CPUFormat(value) ELSE MemoryFormat(value)

Factories == {"fromMillicores", "fromCores", "fromBytes", "fromKiB", "fromMiB", "fromGiB"}

FactoryClass(f) ==
  IF f \in {"fromMillicores", "fromCores"} THEN "CPUResource" ELSE "MemoryResource"

Factory(module, f, n) ==
  CASE f = "fromMillicores" -> fromMillicores(module, n)
    [] f = "fromCores" -> fromCores(module, n)
    [] f = "fromBytes" -> fromBytes(module, n)
    [] f = "fromKiB" -> fromKiB(module, n)
    [] f = "fromMiB" -> fromMiB(module, n)
    [] f = "fromGiB" -> fromGiB(module, n)

(***************************************************************************)
(* The program: a caller that imports one of the two modules, creates      *)
(* resources of one class and calls their methods.                         *)
(*   impl  the module imported: "index" (src/index.ts) or "resources"      *)
(*         (src/resources)                                                 *)
(*   heap  the instances the caller holds, in order of creation, each with *)
(*         its class and its private field value; an instance a failing    *)
(*         call created is garbage and is not kept                         *)
(*   last  the last call: its operation, class, receiver, argument, input  *)
(*         string or number, the error it threw, and what it returned      *)
(***************************************************************************)
VARIABLES impl, heap, last

vars == <<impl, heap, last>>

\* the number of instances a caller holds at most
MaxObjs == 3

NoCall ==
  [op |-> "none", cls |-> "", this |-> 0, other |-> 0, arg |-> <<>>, num |-> NaN,
   threw |-> "none", ref |-> 0, bool |-> FALSE, val |-> NaN, out |-> <<>>]

Init ==
  /\ impl \in Modules
  /\ heap = <<>>
  /\ last = NoCall

Objs == 1..Len(heap)

\* the instance a successful constructor call leaves on the heap
Instance(cls, value) == [cls |-> cls, value |-> value]

\* the caller has room for an instance of cls; the two classes do not mix
\* (the type checker rejects a call across them)
Room(cls) ==
  /\ Len(heap) < MaxObjs
  /\ \A i \in Objs : heap[i].cls = cls

\* a call that creates an instance from the outcome o of its constructor
Created(call, cls, o) ==
  IF o.threw # "none"
  THEN /\ last' = [call EXCEPT !.threw = o.threw]
       /\ UNCHANGED heap
  ELSE /\ heap' = Append(heap, Instance(cls, o.value))
       /\ last' = [call EXCEPT !.ref = Len(heap) + 1]

\* new CPUResource(resource), new MemoryResource(resource)
New(cls, resource) ==
  /\ Room(cls)
  /\ Created([NoCall EXCEPT !.op = "new", !.cls = cls, !.arg = resource],
             cls, Constructor(impl, cls, resource))
  /\ UNCHANGED impl

\* CPUResource.zero(), MemoryResource.zero()
Zero(cls) ==
  /\ Room(cls)
  /\ Created([NoCall EXCEPT !.op = "zero", !.cls = cls], cls, ZeroOf(impl, cls))
  /\ UNCHANGED impl

\* CPUResource.fromMillicores(n), ..., MemoryResource.fromGiB(n)
Create(f, n) ==
  /\ Room(FactoryClass(f))
  /\ Created([NoCall EXCEPT !.op = f, !.cls = FactoryClass(f), !.num = n],
             FactoryClass(f), Factory(impl, f, n))
  /\ UNCHANGED impl

\* a variant of plus, minus and times that writes the value into the receiver
\* and returns the receiver
DerivedInPlace(call, cls, value) ==
  \E error \in {Validate(cls, value)} :
    IF error # "none"
    THEN /\ last' = [call EXCEPT !.threw = error]
         /\ UNCHANGED heap
    ELSE /\ last' = [call EXCEPT !.ref = call.this]
         /\ heap' = [heap EXCEPT ![call.this].value = value]

\* the calls a.plus(b), a.minus(b), a.times(k): result = zero();
\* result.value = value; validate(result.value); return result
Derived(call, cls, value) ==
  \E zero \in {ZeroOf(impl, cls)} :
    IF zero.threw # "none"
    THEN /\ last' = [call EXCEPT !.threw = zero.threw]
         /\ UNCHANGED heap
    ELSE LET result == Len(heap) + 1
             heap1  == Append(heap, Instance(cls, zero.value))
             heap2  == [heap1 EXCEPT ![result].value = value]
         IN  \E error \in {Validate(cls, heap2[result].value)} :
               IF error # "none"
               THEN /\ last' = [call EXCEPT !.threw = error]
                    /\ UNCHANGED heap
               ELSE /\ last' = [call EXCEPT !.ref = result]
                    /\ heap' = heap2

MethodCall(op, this, other) ==
  [NoCall EXCEPT !.op = op, !.cls = heap[this].cls, !.this = this, !.other = other]

\* a variant of plus that adds the receiver to itself
plusDoubled(this, other) ==
  /\ Len(heap) < MaxObjs
  /\ Derived(MethodCall("plus", this, other), heap[this].cls,
             NumAdd(heap[this].value, heap[this].value))
  /\ UNCHANGED impl

plus(this, other) ==
  /\ Len(heap) < MaxObjs
  /\ Derived(MethodCall("plus", this, other), heap[this].cls,
             NumAdd(heap[this].value, heap[other].value))
  /\ UNCHANGED impl

\* a variant of minus with its operands exchanged
minusExchanged(this, other) ==
  /\ Len(heap) < MaxObjs
  /\ Derived(MethodCall("minus", this, other), heap[this].cls,
             NumSub(heap[other].value, heap[this].value))
  /\ UNCHANGED impl

minus(this, other) ==
  /\ Len(heap) < MaxObjs
  /\ Derived(MethodCall("minus", this, other), heap[this].cls,
             NumSub(heap[this].value, heap[other].value))
  /\ UNCHANGED impl

\* a variant of times without the test of the factor
timesUnchecked(this, factor) ==
  /\ Len(heap) < MaxObjs
  /\ Derived([MethodCall("times", this, 0) EXCEPT !.num = factor], heap[this].cls,
             MathFloor(NumMul(heap[this].value, factor)))
  /\ UNCHANGED impl

\* a variant of times that keeps the product as it is
timesUnfloored(this, factor) ==
  /\ Len(heap) < MaxObjs
  /\ IF ~NumberIsFinite(factor)
     THEN /\ last' = [MethodCall("times", this, 0) EXCEPT !.num = factor,
                                                          !.threw = "InvalidFactor"]
          /\ UNCHANGED heap
     ELSE Derived([MethodCall("times", this, 0) EXCEPT !.num = factor], heap[this].cls,
                  NumMul(heap[this].value, factor))
  /\ UNCHANGED impl

\* a variant of times that rounds the product to the nearest whole number
timesRounded(this, factor) ==
  /\ Len(heap) < MaxObjs
  /\ IF ~NumberIsFinite(factor)
     THEN /\ last' = [MethodCall("times", this, 0) EXCEPT !.num = factor,
                                                          !.threw = "InvalidFactor"]
          /\ UNCHANGED heap
     ELSE Derived([MethodCall("times", this, 0) EXCEPT !.num = factor], heap[this].cls,
                  MathFloor(NumAdd(NumMul(heap[this].value, factor), Dyadic(1, -1))))
  /\ UNCHANGED impl

\* a variant of times with a test of its own for a negative factor
timesSigned(this, factor) ==
  /\ Len(heap) < MaxObjs
  /\ IF ~NumberIsFinite(factor)
     THEN /\ last' = [MethodCall("times", this, 0) EXCEPT !.num = factor,
                                                          !.threw = "InvalidFactor"]
          /\ UNCHANGED heap
     ELSE IF NumLt(factor, Num(0))
     THEN /\ last' = [MethodCall("times", this, 0) EXCEPT !.num = factor,
                                                          !.threw = "Negative"]
          /\ UNCHANGED heap
     ELSE Derived([MethodCall("times", this, 0) EXCEPT !.num = factor], heap[this].cls,
                  MathFloor(NumMul(heap[this].value, factor)))
  /\ UNCHANGED impl

times(this, factor) ==
  /\ Len(heap) < MaxObjs
  /\ IF ~NumberIsFinite(factor)
     THEN /\ last' = [MethodCall("times", this, 0) EXCEPT !.num = factor,
                                                          !.threw = "InvalidFactor"]
          /\ UNCHANGED heap
     ELSE Derived([MethodCall("times", this, 0) EXCEPT !.num = factor], heap[this].cls,
                  MathFloor(NumMul(heap[this].value, factor)))
  /\ UNCHANGED impl

equals(this, other) ==
  /\ last' = [MethodCall("equals", this, other) EXCEPT
                !.bool = NumStrictEq(heap[this].value, heap[other].value)]
  /\ UNCHANGED <<impl, heap>>

\* a variant of isLessThan that also holds of equal values
isLessThanOrEqual(this, other) ==
  /\ last' = [MethodCall("isLessThan", this, other) EXCEPT
                !.bool = ~NumLt(heap[other].value, heap[this].value)]
  /\ UNCHANGED <<impl, heap>>

isLessThan(this, other) ==
  /\ last' = [MethodCall("isLessThan", this, other) EXCEPT
                !.bool = NumLt(heap[this].value, heap[other].value)]
  /\ UNCHANGED <<impl, heap>>

isGreaterThan(this, other) ==
  /\ last' = [MethodCall("isGreaterThan", this, other) EXCEPT
                !.bool = NumGt(heap[this].value, heap[other].value)]
  /\ UNCHANGED <<impl, heap>>

valueOf(this) ==
  /\ last' = [MethodCall("valueOf", this, 0) EXCEPT !.val = heap[this].value]
  /\ UNCHANGED <<impl, heap>>

toString(this) ==
  /\ last' = [MethodCall("toString", this, 0) EXCEPT
                !.out = Format(heap[this].cls, heap[this].value)]
  /\ UNCHANGED <<impl, heap>>

\* a variant of [Symbol.toPrimitive] that writes the text for "default" too
toPrimitiveText(this, hint) ==
  /\ last' = IF hint # <<"n", "u", "m", "b", "e", "r">>
             THEN [MethodCall("toPrimitive", this, 0) EXCEPT
                     !.arg = hint, !.out = Format(heap[this].cls, heap[this].value)]
             ELSE [MethodCall("toPrimitive", this, 0) EXCEPT
                     !.arg = hint, !.val = heap[this].value]
  /\ UNCHANGED <<impl, heap>>

\* x[Symbol.toPrimitive](hint): what `${x}`, +x and x + y ask of x
toPrimitive(this, hint) ==
  /\ last' = IF hint = <<"s", "t", "r", "i", "n", "g">>
             THEN [MethodCall("toPrimitive", this, 0) EXCEPT
                     !.arg = hint, !.out = Format(heap[this].cls, heap[this].value)]
             ELSE [MethodCall("toPrimitive", this, 0) EXCEPT
                     !.arg = hint, !.val = heap[this].value]
  /\ UNCHANGED <<impl, heap>>

(***************************************************************************)
(* The inputs of the calls.                                                *)
(***************************************************************************)
Texts ==
  { <<"4">>, <<"5", "0", "0", "m">>, <<"-", "1">> }

Numbers ==
  { Num(0), NumNeg(Num(1)) }

\* the hints of the language: "string" from a template literal, "number" from
\* arithmetic, "default" from + and ==
Hints ==
  { <<"s", "t", "r", "i", "n", "g">>, <<"n", "u", "m", "b", "e", "r">>,
    <<"d", "e", "f", "a", "u", "l", "t">> }

Factors ==
  { Num(0), Num(1), Dyadic(3, -2), NumNeg(Num(1)), NaN, Inf(FALSE), Inf(TRUE),
    Dyadic(1, 1023), NumNeg(Dyadic(1, 1023)) }

\* the calls that create an instance from a string or a number
NextCreate ==
  \/ \E cls \in Classes, resource \in Texts : New(cls, resource)
  \/ \E cls \in Classes : Zero(cls)
  \/ \E f \in Factories, n \in Numbers : Create(f, n)

\* the calls that derive an instance from others
NextDerive ==
  \/ \E this \in Objs, other \in Objs : plus(this, other)
  \/ \E this \in Objs, other \in Objs : minus(this, other)
  \/ \E this \in Objs, factor \in Factors : times(this, factor)

\* the calls that read an instance
NextRead ==
  \/ \E this \in Objs, other \in Objs : equals(this, other)
  \/ \E this \in Objs, other \in Objs : isLessThan(this, other)
  \/ \E this \in Objs, other \in Objs : isGreaterThan(this, other)
  \/ \E this \in Objs : valueOf(this)
  \/ \E this \in Objs : toString(this)
  \/ \E this \in Objs, hint \in Hints : toPrimitive(this, hint)

Next ==
  NextCreate \/ NextDerive \/ NextRead

Spec == Init /\ [][Next]_vars

\* the runs that only build instances: a read leaves impl and heap as they
\* are, so these runs reach every heap that Spec reaches
SpecBuild == Init /\ [][NextCreate \/ NextDerive]_vars

\* the runs that create instances and read them
SpecRead == Init /\ [][NextCreate \/ NextRead]_vars

(***************************************************************************)
(* The first call of a program, over a wider range of inputs.              *)
(***************************************************************************)
Mantissas ==
  { <<>>, <<"0">>, <<"1">>, <<"2">>, <<"1", "0", "0">>, <<"1", "0", "0", "0">>,
    <<"1", "0", "0", "1">>, <<"1", "0", "2", "4">>, <<"0", ".", "5">>, <<"1", ".", "5">>,
    <<"0", ".", "1">>, <<"1", ".", "0", "0", "1">>, <<"1", ".", "0", "0", "5">>,
    <<"0", ".", "0", "0", "1">>, <<"1", ".", "5", ".", "5">>, <<".", "5">>, <<"5", ".">>,
    <<" ", "1">>, <<"+", "1">>, <<"1", ",", "5">>, <<"1", "e", "5">> }

Suffixes ==
  { <<>>, <<"m">>, <<"B">>, <<"K", "i">>, <<"M", "i">>, <<"G", "i">>, <<"T", "i">>,
    <<"x">>, <<"m", "m">>, <<"K">>, <<"k", "i">>, <<"G", "B">>, <<"M">>, <<"c", "o", "r", "e", "s">>,
    <<"m", " ">>, <<"m", "1">>, <<" ", "m">>,
    <<"c", "o", "n", "s", "t", "r", "u", "c", "t", "o", "r">>,
    <<"t", "o", "S", "t", "r", "i", "n", "g">>, <<"v", "a", "l", "u", "e", "O", "f">> }

ParseTexts ==
  { sign \o mantissa \o suffix :
      sign \in {<<>>, <<"-">>}, mantissa \in Mantissas, suffix \in Suffixes }

ParseNumbers ==
  { Num(0), NumNeg(Num(0)), Num(1), Num(2), Num(100), Num(1000), Num(1024), Num(1001),
    Dyadic(1, -1), Dyadic(3, -1), Dyadic(1, -2), NumDiv(Num(1001), Num(1000)),
    NumDiv(Num(1), Num(1000)), NumNeg(Num(1)), NumNeg(Dyadic(1, -1)), NumNeg(Num(1000)),
    NaN, Inf(FALSE), Inf(TRUE), Dyadic(1, 53),
    NumMul(Num(1000000000), NumMul(Num(1000000000), Num(1000))) }

NextParse ==
  /\ last = NoCall
  /\ \/ \E cls \in Classes, resource \in ParseTexts : New(cls, resource)
     \/ \E f \in Factories, n \in ParseNumbers : Create(f, n)

SpecParse == Init /\ [][NextParse]_vars

(***************************************************************************)
(* A program that creates a quantity, writes it and reads it back:         *)
(* new C(String(x)), over values that show every branch of format.         *)
(***************************************************************************)
FormatNumbers ==
  { Num(0), Num(1), Num(999), Num(1000), Num(1001), Num(1023), Num(1024), Num(1100),
    Num(1152), Num(1536), Num(2048), Num(9999), Dyadic(1, 53) }

FormatTexts ==
  { <<"2", "T", "i">>, <<"0", ".", "5", "G", "i">>, <<"1", ".", "2", "5">> }

\* new C(x.toString()) for the instance x of class C just written
Reparse ==
  /\ last.op = "toString"
  /\ New(last.cls, last.out)

NextText ==
  \/ last = NoCall /\ \E f \in Factories, n \in FormatNumbers : Create(f, n)
  \/ last = NoCall /\ \E cls \in Classes, resource \in FormatTexts : New(cls, resource)
  \/ last.op # "toString" /\ \E this \in Objs : toString(this)
  \/ Reparse

SpecText == Init /\ [][NextText]_vars

(***************************************************************************)
(* A program that creates two quantities and compares them or their        *)
(* texts, over values on both sides of every threshold of format and two   *)
(* neighbours near 2^53.                                                   *)
(***************************************************************************)
PairNumbers ==
  { Num(500), Num(1000), Num(1536),
    NumAdd(Dyadic(125, 46), Num(1)), NumAdd(Dyadic(125, 46), Num(2)) }

PairFactories == {"fromMillicores", "fromCores", "fromBytes", "fromKiB"}

\* the program creates one or two quantities and then reads once
NextPair ==
  \/ /\ Len(heap) < 2
     /\ last.op \in PairFactories \cup {"none"}
     /\ \E f \in PairFactories, n \in PairNumbers : Create(f, n)
  \/ last.op \in PairFactories /\ \E this \in Objs : toString(this)
  \/ last.op \in PairFactories /\ \E this \in Objs, other \in Objs : equals(this, other)

SpecPair == Init /\ [][NextPair]_vars

(***************************************************************************)
(* A program that creates two quantities and adds, subtracts or multiplies *)
(* them, over values on both sides of 2^53, from where on not every whole  *)
(* number is a Number.                                                     *)
(***************************************************************************)
SumNumbers ==
  { Num(0), Num(1), Num(3), Dyadic(1, 53), NumAdd(Dyadic(1, 53), Num(2)) }

SumFactories == {"fromMillicores", "fromBytes"}

SumFactors == { Num(0), Num(2), Num(3), Dyadic(3, -2) }

\* the program creates one or two quantities and then derives one from them
NextSum ==
  \/ /\ Len(heap) < 2
     /\ last.op \in SumFactories \cup {"none"}
     /\ \E f \in SumFactories, n \in SumNumbers : Create(f, n)
  \/ last.op \in SumFactories /\ \E this \in Objs, other \in Objs : plus(this, other)
  \/ last.op \in SumFactories /\ \E this \in Objs, other \in Objs : minus(this, other)
  \/ last.op \in SumFactories /\ \E this \in Objs, factor \in SumFactors : times(this, factor)

SpecSum == Init /\ [][NextSum]_vars

(***************************************************************************)
(* The properties checked.                                                 *)
(***************************************************************************)
\* x is a whole number (a finite number in normal form has an odd m, so it
\* is whole exactly when its exponent is not negative)
IsWhole(x) == x.k = "fin" /\ x.e >= 0

\* x is below zero (-0 is not)
IsNegative(x) == x.k # "nan" /\ x.neg /\ ~IsZero(x)

\* C1: every instance the caller holds has a canonical value that is finite,
\* not below zero and whole, and a call that throws returns no instance.
C1Canonical ==
  /\ \A i \in Objs : IsWhole(heap[i].value) /\ ~IsNegative(heap[i].value)
  /\ last.threw # "none" => last.ref = 0
  /\ last.ref # 0 => last.ref \in Objs

\* a minus that would go below zero threw and left the two operands alone
C1Witness ==
  /\ last.op = "minus"
  /\ last.threw = "Negative"
  /\ Len(heap) = 2

\* C2: no call changes the value of an instance that exists, whether it
\* returns or throws, and the instance plus, minus or times returns is new.
C2Frame ==
  [][ /\ Len(heap') >= Len(heap)
      /\ \A i \in Objs : heap'[i] = heap[i]
      /\ (last'.op \in {"plus", "minus", "times"} /\ last'.ref # 0)
           => (last'.ref \notin Objs /\ last'.ref = Len(heap')) ]_vars

\* a plus of two different instances returned a third
C2Witness ==
  /\ last.op = "plus"
  /\ last.threw = "none"
  /\ last.this # last.other
  /\ last.ref = 3

\* C3: a.minus(b) throws Negative when a's value is less than b's, and
\* otherwise returns an instance whose value is a - b.
C3Minus ==
  last.op = "minus" =>
    IF NumLt(heap[last.this].value, heap[last.other].value)
    THEN last.threw = "Negative" /\ last.ref = 0
    ELSE /\ last.threw = "none"
         /\ last.ref = Len(heap)
         /\ heap[last.ref].value = NumSub(heap[last.this].value, heap[last.other].value)

\* a minus of a larger instance from a smaller one threw Negative
C3Witness ==
  /\ last.op = "minus"
  /\ last.threw = "Negative"
  /\ NumLt(heap[last.this].value, heap[last.other].value)
  /\ ~IsZero(heap[last.this].value)

\* the factor of the last call is finite and below zero
NegativeFactor ==
  last.op = "times" /\ last.num.k = "fin" /\ IsNegative(last.num)

\* C4, as amended: a.times(k) for a finite k below zero throws Negative when
\* a's value is above zero; when a's value is zero the product is -0, which
\* is not below zero, and the call returns an instance whose value is zero.
C4Times ==
  NegativeFactor =>
    IF IsZero(heap[last.this].value)
    THEN last.threw = "none" /\ last.ref = Len(heap) /\ IsZero(heap[last.ref].value)
    ELSE last.threw = "Negative"

\* C4, as stated: a.times(k) for a finite k below zero throws Negative for
\* every a, zero included.
C4Stated ==
  NegativeFactor => last.threw = "Negative"

\* a times by -1 of an instance above zero threw Negative
C4Witness ==
  /\ NegativeFactor
  /\ last.num = NumNeg(Num(1))
  /\ ~IsZero(heap[last.this].value)
  /\ last.threw = "Negative"

\* the last call handed its number to the validator as it was given
ValidatedAsGiven ==
  last.op \in {"fromMillicores", "fromBytes"}

\* C5, as amended: the validator tests the sign first, then finiteness, then
\* wholeness: a value below zero, -Infinity included, is rejected as
\* Negative, NaN and +Infinity as NotFinite, and a finite value not below
\* zero and not whole as FractionalUnit.
C5Order ==
  ValidatedAsGiven =>
    /\ IsNegative(last.num) => last.threw = "Negative"
    /\ (last.num.k = "nan" \/ (last.num.k = "inf" /\ ~last.num.neg))
         => last.threw = "NotFinite"
    /\ (last.num.k = "fin" /\ ~IsNegative(last.num) /\ ~IsWhole(last.num))
         => last.threw = "FractionalUnit"

\* C5, as stated: finiteness is tested first, so NaN, +Infinity and
\* -Infinity are all rejected as NotFinite.
C5Stated ==
  ValidatedAsGiven =>
    /\ last.num.k # "fin" => last.threw = "NotFinite"
    /\ (last.num.k = "fin" /\ IsNegative(last.num)) => last.threw = "Negative"
    /\ (last.num.k = "fin" /\ ~IsNegative(last.num) /\ ~IsWhole(last.num))
         => last.threw = "FractionalUnit"

\* fromMillicores(-Infinity) threw Negative
C5Witness ==
  /\ last.op = "fromMillicores"
  /\ last.num = Inf(TRUE)
  /\ last.threw = "Negative"

\* the characters a..b of s all belong to class
AllIn(s, a, b, class) ==
  \A i \in a..b : s[i] \in class

\* s is digits, optionally '.' and more digits, then zero or more letters
WellFormed(s) ==
  \E i \in 1..Len(s) :
    /\ AllIn(s, 1, i, Digits)
    /\ \/ AllIn(s, i + 1, Len(s), Letters)
       \/ \E j \in (i + 2)..Len(s) :
            /\ s[i + 1] = "."
            /\ AllIn(s, i + 2, j, Digits)
            /\ AllIn(s, j + 1, Len(s), Letters)

\* the number of letters s ends with
SuffixLen(s) ==
  CHOOSE n \in 0..Len(s) :
    /\ AllIn(s, Len(s) - n + 1, Len(s), Letters)
    /\ n = Len(s) \/ s[Len(s) - n] \notin Letters

\* the letters s ends with
Suffix(s) == SubSeq(s, Len(s) - SuffixLen(s) + 1, Len(s))

\* the unit suffixes of a class, the empty one aside
UnitNames(cls) ==
  IF cls = "CPUResource" THEN { <<"m">> }
  ELSE { <<"B">>, <<"K", "i">>, <<"M", "i">>, <<"G", "i">>, <<"T", "i">> }

\* C6: constructing from a well-formed string whose letter suffix is not
\* empty and is not a unit of the class throws InvalidUnit.
C6UnknownSuffix ==
  ( /\ last.op = "new"
    /\ WellFormed(last.arg)
    /\ Suffix(last.arg) # <<>>
    /\ Suffix(last.arg) \notin UnitNames(last.cls) )
  => last.threw = "InvalidUnit"

\* C7: in the classes of src/resources, constructing from a string that
\* starts with '-' throws Negative, whatever follows the '-'.
C7LeadingMinus ==
  (impl = "resources" /\ last.op = "new" /\ Len(last.arg) >= 1 /\ last.arg[1] = "-")
  => last.threw = "Negative"

\* new MemoryResource('-100Mi') of src/resources threw Negative
C7Witness ==
  /\ impl = "resources"
  /\ last.op = "new"
  /\ last.cls = "MemoryResource"
  /\ last.arg = <<"-", "1", "0", "0", "M", "i">>
  /\ last.threw = "Negative"

\* C8: in the classes of src/index.ts, constructing from a string that
\* starts with '-' throws InvalidFormat, and a factory given a number below
\* zero throws Negative.
C8IndexModule ==
  impl = "index" =>
    /\ (last.op = "new" /\ Len(last.arg) >= 1 /\ last.arg[1] = "-")
         => last.threw = "InvalidFormat"
    /\ (last.op \in Factories /\ IsNegative(last.num)) => last.threw = "Negative"

\* new CPUResource('-100m') of src/index.ts threw InvalidFormat
C8Witness ==
  /\ impl = "index"
  /\ last.op = "new"
  /\ last.cls = "CPUResource"
  /\ last.arg = <<"-", "1", "0", "0", "m">>
  /\ last.threw = "InvalidFormat"

\* C9, as amended: constructing from a string that is not well-formed throws
\* InvalidFormat, except that the classes of src/resources throw Negative
\* when the string starts with '-'.
C9Malformed ==
  (last.op = "new" /\ ~WellFormed(last.arg)) =>
    IF impl = "resources" /\ Len(last.arg) >= 1 /\ last.arg[1] = "-"
    THEN last.threw = "Negative"
    ELSE last.threw = "InvalidFormat"

\* C9, as stated: constructing from a string that is not well-formed throws
\* InvalidFormat.
C9Stated ==
  (last.op = "new" /\ ~WellFormed(last.arg)) => last.threw = "InvalidFormat"

\* new CPUResource('1e5'), an exponent form, threw InvalidFormat
C9Witness ==
  /\ last.op = "new"
  /\ last.cls = "CPUResource"
  /\ last.arg = <<"1", "e", "5">>
  /\ last.threw = "InvalidFormat"

\* the multiplier of a unit suffix of a class, as a natural
UnitMultiplier(cls, unit) ==
  CASE cls = "CPUResource" /\ unit = <<>> -> BNFromNat(1000)
    [] unit = <<"K", "i">> -> BNShiftLeft(<<1>>, 10)
    [] unit = <<"M", "i">> -> BNShiftLeft(<<1>>, 20)
    [] unit = <<"G", "i">> -> BNShiftLeft(<<1>>, 30)
    [] unit = <<"T", "i">> -> BNShiftLeft(<<1>>, 40)
    [] OTHER -> <<1>>

\* the decimal number a well-formed string s starts with, times the
\* multiplier of its suffix: the quotient by 10^(number of decimals), and
\* the rest (none when the amount is whole)
Amount(cls, s) ==
  LET number   == SubSeq(s, 1, Len(s) - SuffixLen(s))
      whole    == PrefixLen(number, Digits)
      decimals == SubSeq(number, whole + 2, Len(number))
  IN  BNDivMod(BNMul(BNFromDecimal(SubSeq(number, 1, whole) \o decimals),
                     UnitMultiplier(cls, Suffix(s))),
               BNPow10(Len(decimals)))

\* C10: constructing from a well-formed string with a unit of the class (or
\* none) whose amount, mantissa times multiplier, is whole returns an
\* instance with that amount as its value, so that strings for one amount in
\* different units give equal instances.
C10Amount ==
  ( /\ last.op = "new"
    /\ WellFormed(last.arg)
    /\ Suffix(last.arg) \in UnitNames(last.cls) \cup {<<>>}
    /\ Amount(last.cls, last.arg).r = <<>> )
  => /\ last.threw = "none"
     /\ last.ref = Len(heap)
     /\ heap[last.ref].value
          = RoundToDouble(FALSE, Amount(last.cls, last.arg).q, 0, FALSE)

\* the unit suffix a factory writes after its number
FactoryUnit(f) ==
  CASE f = "fromMillicores" -> <<"m">>
    [] f = "fromBytes" -> <<"B">>
    [] f = "fromKiB" -> <<"K", "i">>
    [] f = "fromMiB" -> <<"M", "i">>
    [] f = "fromGiB" -> <<"G", "i">>
    [] OTHER -> <<>>

\* the amount a call names, as a string: the string given to the
\* constructor, or the number given to a factory with the factory's unit
AmountText(call) ==
  IF call.op = "new" THEN call.arg
  ELSE NumberToString(call.num) \o FactoryUnit(call.op)

\* C11: an amount that is not a whole number of the base unit, given as a
\* well-formed string with a unit of the class or as a number to a factory,
\* is rejected with FractionalUnit; a string whose amount is whole is
\* accepted.
C11Fractional ==
  ( /\ last.op \in Factories \cup {"new"}
    /\ WellFormed(AmountText(last))
    /\ Suffix(AmountText(last)) \in UnitNames(last.cls) \cup {<<>>} )
  => IF Amount(last.cls, AmountText(last)).r # <<>>
     THEN last.threw = "FractionalUnit"
     ELSE last.op = "new" => last.threw = "none"

\* the whole number a canonical value holds, as a natural
IntegerOf(x) == BNShiftLeft(x.m, x.e)

\* a natural as a number
NumberOf(n) == RoundToDouble(FALSE, n, 0, FALSE)

\* the last call returned a new instance whose value equals x
Returned(x) ==
  /\ last.threw = "none"
  /\ last.ref = Len(heap)
  /\ NumStrictEq(heap[last.ref].value, x)

C13Identity ==
  /\ (last.op \in {"plus", "minus"} /\ IsZero(heap[last.other].value))
       => Returned(heap[last.this].value)
  /\ (last.op = "times" /\ last.num = Num(1)) => Returned(heap[last.this].value)
  /\ (last.op = "times" /\ last.num = Num(0)) => Returned(Num(0))

\* a minus of a zero instance from an instance above zero returned
C13Witness ==
  /\ last.op = "minus"
  /\ IsZero(heap[last.other].value)
  /\ ~IsZero(heap[last.this].value)
  /\ last.threw = "none"

\* C14: a.times(k) for a k that is NaN, +Infinity or -Infinity throws
\* InvalidFactor and returns no instance, whatever a's value is.
C14InvalidFactor ==
  (last.op = "times" /\ last.num.k # "fin")
    => last.threw = "InvalidFactor" /\ last.ref = 0

\* a times by -Infinity of a zero instance threw InvalidFactor
C14Witness ==
  /\ last.op = "times"
  /\ last.num = Inf(TRUE)
  /\ IsZero(heap[last.this].value)
  /\ last.threw = "InvalidFactor"

\* the integer part of the exact product of the whole number a and the finite
\* factor, no rounding on the way
FlooredProduct(a, factor) ==
  With(BNMul(IntegerOf(a), factor.m), LAMBDA p :
       IF factor.e >= 0 THEN BNShiftLeft(p, factor.e) ELSE BNShiftRight(p, -factor.e))

\* the exact product of a and factor has a fractional part
FractionalProduct(a, factor) ==
  factor.e < 0 /\ BNLowBitsSet(BNMul(IntegerOf(a), factor.m), -factor.e)

FactoryMultiplier(f) ==
  NumberOf(UnitMultiplier(FactoryClass(f), FactoryUnit(f)))

\* C16: a factory called with a negative number fails with Negative, one
\* called with NaN or Infinity fails with NotFinite, and one called with a
\* number n whose product with the factory's multiplier is a whole number not
\* below zero returns a new instance with that product as its value.
C16Factory ==
  last.op \in Factories =>
    \E product \in {NumMul(last.num, FactoryMultiplier(last.op))} :
      /\ IsNegative(last.num) => last.threw = "Negative"
      /\ (last.num.k = "nan" \/ (last.num.k = "inf" /\ ~last.num.neg))
           => last.threw = "NotFinite"
      /\ (IsWhole(product) /\ ~IsNegative(product)) => Returned(product)

\* s without the "0"s at its end
RECURSIVE StripZeros(_)
StripZeros(s) ==
  IF s # <<>> /\ s[Len(s)] = "0" THEN StripZeros(SubSeq(s, 1, Len(s) - 1)) ELSE s

\* the natural n divided by 10^d, written out in full: the integer part, and
\* after a point the decimals there are, none left out and no exponent
PlainDecimal(n, d) ==
  With(BNToDecimal(n), LAMBDA written :
  With(Repeat("0", d + 1 - Len(written)) \o written, LAMBDA digits :
  With(StripZeros(SubSeq(digits, Len(digits) - d + 1, Len(digits))), LAMBDA decimals :
       SubSeq(digits, 1, Len(digits) - d)
         \o (IF decimals = <<>> THEN <<>> ELSE <<".">> \o decimals))))

\* the number written in front of the unit
Shown(out) == SubSeq(out, 1, Len(out) - SuffixLen(out))

MemoryShift(bytes) ==
  IF BNBitLen(bytes) > 30 THEN 30
  ELSE IF BNBitLen(bytes) > 20 THEN 20
  ELSE IF BNBitLen(bytes) > 10 THEN 10 ELSE 0

ShiftUnit(k) ==
  CASE k = 30 -> <<"G", "i">> [] k = 20 -> <<"M", "i">> [] k = 10 -> <<"K", "i">>
    [] OTHER -> <<"B">>

\* 5^k for k = 0, 10, 20, 30
Pow5(k) ==
  IF k = 0 THEN <<1>>
  ELSE IF k = 10 THEN BNFromNat(5^10)
  ELSE IF k = 20 THEN BNMul(BNFromNat(5^10), BNFromNat(5^10))
  ELSE BNMul(BNFromNat(5^10), BNMul(BNFromNat(5^10), BNFromNat(5^10)))

\* C18: toString of a memory quantity ends with the first of Gi, Mi, Ki
\* whose size the bytes reach, and with B below 1024, never with Ti; in
\* front of the unit stands the quotient of the bytes by the unit, decimals
\* included (written in full whenever it has at most 15 digits).
C18MemoryText ==
  (last.op = "toString" /\ last.cls = "MemoryResource") =>
    \E bytes \in {IntegerOf(heap[last.this].value)} :
      \E exact \in {PlainDecimal(BNMul(bytes, Pow5(MemoryShift(bytes))), MemoryShift(bytes))} :
        /\ Suffix(last.out) = ShiftUnit(MemoryShift(bytes))
        /\ Len(exact) <= 16 => Shown(last.out) = exact

C18Witness ==
  /\ last.op = "toString" /\ last.cls = "MemoryResource"
  /\ heap[last.this].value = Dyadic(1, 41)
  /\ last.out = <<"2", "0", "4", "8", "G", "i">>

\* C19: a quantity written with toString and read back with the constructor
\* of its class is constructed, and equals the quantity written.
C19RoundTrip ==
  [][(last.op = "toString" /\ last'.op = "new")
       => /\ last'.threw = "none"
          /\ NumStrictEq(heap'[last'.ref].value, heap[last.this].value)]_vars

\* -1, 0 or 1 as the whole number a is below, equal to or above b
Compared(a, b) == BNCmp(IntegerOf(a), IntegerOf(b))

\* C20: equals, isLessThan and isGreaterThan never fail, and each answers as
\* the order of the whole numbers does on the two canonical values, the
\* values valueOf returns: equals exactly when they are the same number,
\* isLessThan exactly when the receiver's is below, isGreaterThan exactly
\* when it is above; so exactly one of the three holds of a pair, and
\* isLessThan(a, b) is isGreaterThan(b, a).
C20TotalOrder ==
  /\ last.op \in {"equals", "isLessThan", "isGreaterThan"} =>
       /\ last.threw = "none"
       /\ last.bool = ( Compared(heap[last.this].value, heap[last.other].value)
                          = (CASE last.op = "equals" -> 0
                               [] last.op = "isLessThan" -> -1
                               [] OTHER -> 1) )
  /\ last.op = "valueOf" => last.threw = "none" /\ last.val = heap[last.this].value

C20Witness ==
  /\ last.op = "isLessThan" /\ last.threw = "none"
  /\ last.bool
  /\ heap[last.this].value = Num(500)
  /\ heap[last.other].value = Num(4000)

\* C21: zero() does not throw and returns a new instance of value 0, which is
\* written "0m" by the CPU class and "0B" by the memory class.
C21Zero ==
  /\ last.op = "zero" =>
       /\ Returned(Num(0))
       /\ Format(last.cls, heap[last.ref].value)
            = (IF last.cls = "CPUResource" THEN <<"0", "m">> ELSE <<"0", "B">>)
  /\ (last.op = "toString" /\ IsZero(heap[last.this].value)) =>
       last.out = (IF last.cls = "CPUResource" THEN <<"0", "m">> ELSE <<"0", "B">>)

C21Witness ==
  /\ last.op = "zero" /\ last.cls = "MemoryResource"
  /\ last.threw = "none"
  /\ last.ref = Len(heap)
  /\ IsZero(heap[last.ref].value)

\* a whole amount of a class written exactly: the cores or the millicores of
\* a CPU amount, the bytes of a memory amount divided by the unit they reach
ExactText(cls, amount) ==
  IF cls = "CPUResource"
  THEN ( IF BNCmp(amount, BNFromNat(1000)) >= 0 THEN PlainDecimal(amount, 3)
         ELSE PlainDecimal(amount, 0) \o <<"m">> )
  ELSE PlainDecimal(BNMul(amount, Pow5(MemoryShift(amount))), MemoryShift(amount))
         \o ShiftUnit(MemoryShift(amount))

\* C22: the numeric accessors, valueOf and [Symbol.toPrimitive] with the hint
\* "number" or "default", return the canonical value as it is stored, and the
\* text accessors, toString and [Symbol.toPrimitive] with the hint "string",
\* return the formatted string; none of them throws and none changes or
\* rejects the instance.
C22Accessors ==
  /\ ( \/ last.op = "valueOf"
       \/ last.op = "toPrimitive" /\ last.arg # <<"s", "t", "r", "i", "n", "g">> ) =>
       /\ last.threw = "none"
       /\ last.val = heap[last.this].value
       /\ last.out = <<>>
  /\ ( \/ last.op = "toString"
       \/ last.op = "toPrimitive" /\ last.arg = <<"s", "t", "r", "i", "n", "g">> ) =>
       /\ last.threw = "none"
       /\ last.val = NaN
       /\ last.out = ExactText(last.cls, IntegerOf(heap[last.this].value))

C22Witness ==
  /\ last.op = "toPrimitive"
  /\ last.arg = <<"d", "e", "f", "a", "u", "l", "t">>
  /\ last.threw = "none"
  /\ last.val = Num(4000)

\* the value the constructor computes from a well-formed string: parseFloat
\* of the number times the multiplier of the suffix
Computed(cls, s) ==
  NumMul(ParseFloat(SubSeq(s, 1, Len(s) - SuffixLen(s))),
         NumberOf(UnitMultiplier(cls, Suffix(s))))

\* C24: the constructors of src/resources report the first of these that
\* applies: a leading '-' as Negative, then a string that does not match the
\* pattern as InvalidFormat, then a suffix that is not a unit of the class as
\* InvalidUnit, and only then what the validator says of the number times the
\* multiplier, which is the outcome of the constructor.
C24Precedence ==
  (impl = "resources" /\ last.op = "new") =>
    last.threw = IF StartsWith(last.arg, "-") THEN "Negative"
                 ELSE IF ~WellFormed(last.arg) THEN "InvalidFormat"
                 ELSE IF Suffix(last.arg) \notin UnitNames(last.cls) \cup {<<>>}
                      THEN "InvalidUnit"
                 ELSE Validate(last.cls, Computed(last.cls, last.arg))

\* the module the caller did not import
OtherModule == IF impl = "index" THEN "resources" ELSE "index"

\* the last call ended as the outcome o does: with the same error, or with a
\* new instance of the same value
SameOutcome(o) ==
  /\ o.threw = last.threw
  /\ o.threw = "none" => (last.ref = Len(heap) /\ heap[last.ref].value = o.value)

\* what the two modules do alike: the factories, zero(), and with it the
\* fresh instance that plus, minus and times start from
AlikeElsewhere ==
  /\ last.op \in Factories => SameOutcome(Factory(OtherModule, last.op, last.num))
  /\ last.op \in {"zero", "plus", "minus", "times"}
       => ZeroOf(OtherModule, last.cls) = ZeroOf(impl, last.cls)

C26FreshZero ==
  [][ /\ (last'.op \in {"plus", "minus", "times"} /\ last'.threw # "none")
           => (heap' = heap /\ last'.ref = 0)
      /\ last'.op = "zero"
           => (last'.threw = "none" /\ heap' = Append(heap, Instance(last'.cls, Num(0))))
      /\ \A i \in Objs : heap'[i].value = heap[i].value
      /\ \A i \in 1..Len(heap') : Validate(heap'[i].cls, heap'[i].value) = "none" ]_vars

\* zero() returned 0 after a plus had made 8 of 4 and 4
C26Witness ==
  /\ last.op = "zero"
  /\ last.ref = 3
  /\ IsZero(heap[3].value)
  /\ heap[1].value = Num(4)
  /\ heap[2].value = Num(8)

\* C27 (as amended): plus, minus and times never throw FractionalUnit; plus
\* throws nothing but NotFinite, and that only for a sum beyond the largest
\* number; minus throws nothing but Negative; times throws InvalidFactor for
\* a factor that is not finite and otherwise nothing but Negative, or
\* NotFinite for a product beyond the largest number.
C27Errors ==
  /\ last.op = "plus" =>
       /\ last.threw \in {"none", "NotFinite"}
       /\ last.threw = "NotFinite"
            => ~NumberIsFinite(NumberOf(BNAdd(IntegerOf(heap[last.this].value),
                                              IntegerOf(heap[last.other].value))))
  /\ last.op = "minus" => last.threw \in {"none", "Negative"}
  /\ last.op = "times" =>
       /\ last.threw \in {"none", "InvalidFactor", "Negative", "NotFinite"}
       /\ last.threw = "InvalidFactor" <=> ~NumberIsFinite(last.num)
       /\ last.threw = "NotFinite"
            => ( /\ NumberIsFinite(last.num) /\ ~last.num.neg
                 /\ ~NumberIsFinite(NumberOf(FlooredProduct(heap[last.this].value, last.num))) )

\* C27 (as stated): plus never throws, minus throws nothing but Negative and
\* times nothing but InvalidFactor, for a factor that is not finite, or
\* Negative.
C27Stated ==
  /\ last.op = "plus" => last.threw = "none"
  /\ last.op = "minus" => last.threw \in {"none", "Negative"}
  /\ last.op = "times" =>
       /\ last.threw \in {"none", "InvalidFactor", "Negative"}
       /\ last.threw = "InvalidFactor" <=> ~NumberIsFinite(last.num)

\* times by the finite factor 2^1023 threw NotFinite
C27Witness ==
  /\ last.op = "times"
  /\ last.num = Dyadic(1, 1023)
  /\ ~IsZero(heap[last.this].value)
  /\ last.threw = "NotFinite"

\* C28: two instances of a class are written alike by toString exactly when
\* equals holds of them.
C28Injective ==
  /\ last.op = "equals" =>
       ( last.bool <=> Format(last.cls, heap[last.this].value)
                         = Format(last.cls, heap[last.other].value) )
  /\ last.op = "toString" =>
       \A other \in Objs :
         Format(last.cls, heap[other].value) = last.out
           <=> NumStrictEq(heap[other].value, heap[last.this].value)

\* 2^53, up to which every whole number is a Number
MaxExact == BNShiftLeft(<<1>>, 53)

\* a.minus(b) returns a quantity of value x: the difference is x and the
\* validator accepts it
MinusGives(cls, a, b, x) ==
  \E difference \in {NumSub(a, b)} :
    Validate(cls, difference) = "none" /\ NumStrictEq(difference, x)

\* a.plus(b) returns a quantity of value x
PlusGives(cls, a, b, x) ==
  \E sum \in {NumAdd(a, b)} :
    Validate(cls, sum) = "none" /\ NumStrictEq(sum, x)

\* C29 (as amended): for a and b with a + b at most 2^53, b subtracted from
\* the result of a.plus(b) gives a again; and for a at most 2^53, b added to
\* the result of a successful a.minus(b) gives a again.
C29Inverse ==
  /\ ( /\ last.op = "plus" /\ last.threw = "none"
       /\ BNCmp(BNAdd(IntegerOf(heap[last.this].value), IntegerOf(heap[last.other].value)),
                MaxExact) <= 0 )
       => MinusGives(last.cls, heap[last.ref].value, heap[last.other].value,
                     heap[last.this].value)
  /\ ( /\ last.op = "minus" /\ last.threw = "none"
       /\ BNCmp(IntegerOf(heap[last.this].value), MaxExact) <= 0 )
       => PlusGives(last.cls, heap[last.ref].value, heap[last.other].value,
                    heap[last.this].value)

\* C29 (as stated): b subtracted from the result of a.plus(b) gives a again,
\* and b added to the result of a successful a.minus(b) gives a again.
C29Stated ==
  /\ (last.op = "plus" /\ last.threw = "none")
       => MinusGives(last.cls, heap[last.ref].value, heap[last.other].value,
                     heap[last.this].value)
  /\ (last.op = "minus" /\ last.threw = "none")
       => PlusGives(last.cls, heap[last.ref].value, heap[last.other].value,
                    heap[last.this].value)

\* 3 plus 1 returned 4
C29Witness ==
  /\ last.op = "plus" /\ last.threw = "none"
  /\ heap[last.this].value = Num(3)
  /\ heap[last.other].value = Num(1)
  /\ last.ref = 3
  /\ MinusGives(last.cls, heap[3].value, Num(1), Num(3))

\* a added to zero k times
RECURSIVE AddedTimes(_, _)
AddedTimes(a, k) ==
  IF k = 0 THEN Num(0) ELSE NumAdd(AddedTimes(a, k - 1), a)

\* times(plus(a, b), factor) less plus(t, times(b, factor)), for the value t
\* that a.times(factor) returned
SumLessParts(a, b, factor, t) ==
  NumSub(NumberOf(FlooredProduct(NumAdd(a, b), factor)),
         NumAdd(t, NumberOf(FlooredProduct(b, factor))))

\* the products of a, b and a + b with the factor are exact: with the factor
\* m x 2^e, m odd, (a + b) x m is at most 2^53
ExactProducts(a, b, factor) ==
  BNCmp(BNMul(BNAdd(IntegerOf(a), IntegerOf(b)), factor.m), MaxExact) <= 0

\* what C30 says of a.times(factor) = t and any b: for a whole factor the
\* product of the sum is the sum of the products and t is a added up factor
\* times, and for a fractional one the product of the sum is the sum of the
\* products or one more
Distributes(a, b, factor, t) ==
  IF IsWhole(factor)
  THEN /\ IsZero(SumLessParts(a, b, factor, t))
       /\ \A k \in 0..3 : factor = Num(k) => NumStrictEq(t, AddedTimes(a, k))
  ELSE SumLessParts(a, b, factor, t) \in {Num(0), Num(1)}

====
